---- MODULE Spec2Model ----
(***************************************************************************)
(* Model of src/pythonafdb.py: the load_data pipeline (read, rename,       *)
(* numeric coercion, continent classification, SQLite cache write) and the *)
(* sidebar filter that computes filtered_df.                               *)
(*                                                                         *)
(* Representation.  A table is [columns |-> set of names, rows |-> Seq of  *)
(* functions from the column names to cells].  A text cell is a string and *)
(* NaN is the missing text cell.  A number (Year, a coerced indicator) is  *)
(* a sequence of length <= 1: <<>> is NaN, <<n>> the number n.  A raw      *)
(* indicator cell is the sequence of characters typed into the sheet; the  *)
(* empty sequence is an empty cell.                                        *)
(*                                                                         *)
(* pandas semantics assumed: pandas 1.5 / 2.x, where                       *)
(* df['Continent'].fillna(..., inplace=True) writes through to df.         *)
(***************************************************************************)
EXTENDS Integers, Sequences, FiniteSets, TLC

VARIABLES file, store, prior, df, pc, err, display_type, selected_year, selected, filtered_df

vars == <<file, store, prior, df, pc, err, display_type, selected_year, selected, filtered_df>>

(* ---------------------------- bounds ---------------------------------- *)
MaxRows == 2

(* ------------------------- cell conventions --------------------------- *)
NaN == "NaN"
NoNum == <<>>
Num(n) == <<n>>

(* ----------------------- constants of load_data ----------------------- *)
RenameMap ==
  [h \in {"Country Name", "Country Code", "Income Level Name", "Year of survey",
          "Employment to Population Ratio, aged 15-64",
          "Unemployment Rate, aged 15-64",
          "Labor Force Participation Rate, aged 15-64",
          "Youth Unemployment Rate, aged 15-24", "Region Code"} |->
     CASE h = "Country Name" -> "Country"
       [] h = "Country Code" -> "Country Code"
       [] h = "Income Level Name" -> "Income Level"
       [] h = "Year of survey" -> "Year"
       [] h = "Employment to Population Ratio, aged 15-64" -> "Employment Rate"
       [] h = "Unemployment Rate, aged 15-64" -> "Unemployment Rate"
       [] h = "Labor Force Participation Rate, aged 15-64" -> "Labor Force Participation Rate"
       [] h = "Youth Unemployment Rate, aged 15-24" -> "Youth Unemployment Rate"
       [] h = "Region Code" -> "Region"]

ExpectedHeaders == DOMAIN RenameMap

num_cols == {"Employment Rate", "Unemployment Rate",
             "Labor Force Participation Rate", "Youth Unemployment Rate"}

IndicatorHeaders == {h \in ExpectedHeaders : RenameMap[h] \in num_cols}

continent_mapping ==
  [r \in {"AFR", "ECS", "LCN", "MEA", "SAS", "EAS", "OCE"} |->
     CASE r = "AFR" -> "Africa"
       [] r = "ECS" -> "Europe & Central Asia"
       [] r = "LCN" -> "Latin America & Caribbean"
       [] r = "MEA" -> "Middle East & North Africa"
       [] r = "SAS" -> "South Asia"
       [] r = "EAS" -> "East Asia & Pacific"
       [] r = "OCE" -> "Oceania"]

(* The dict literal of lines 40-75, as the sequence of its key: value      *)
(* entries in the order they are written ("New Zealand" occurs twice).     *)
CountryLiteral ==
  << <<"Mali", "Africa">>, <<"Burkina Faso", "Africa">>, <<"Nigeria", "Africa">>,
     <<"Ghana", "Africa">>, <<"Kenya", "Africa">>, <<"Ethiopia", "Africa">>,
     <<"Tanzania", "Africa">>, <<"South Africa", "Africa">>, <<"Egypt", "Africa">>,
     <<"Algeria", "Africa">>, <<"Morocco", "Africa">>, <<"Uganda", "Africa">>,
     <<"Rwanda", "Africa">>, <<"Senegal", "Africa">>, <<"Zambia", "Africa">>,
     <<"Cameroon", "Africa">>, <<"Niger", "Africa">>, <<"Chad", "Africa">>,
     <<"Sudan", "Africa">>, <<"Tunisia", "Africa">>,
     <<"Democratic Republic of the Congo", "Africa">>,
     <<"Republic of the Congo", "Africa">>, <<"Angola", "Africa">>,
     <<"United States", "North America">>, <<"Canada", "North America">>,
     <<"Mexico", "North America">>,
     <<"Brazil", "Latin America & Caribbean">>, <<"Argentina", "Latin America & Caribbean">>,
     <<"Colombia", "Latin America & Caribbean">>, <<"Chile", "Latin America & Caribbean">>,
     <<"Peru", "Latin America & Caribbean">>, <<"Venezuela", "Latin America & Caribbean">>,
     <<"France", "Europe & Central Asia">>, <<"Germany", "Europe & Central Asia">>,
     <<"United Kingdom", "Europe & Central Asia">>, <<"Russia", "Europe & Central Asia">>,
     <<"Spain", "Europe & Central Asia">>, <<"Italy", "Europe & Central Asia">>,
     <<"Ukraine", "Europe & Central Asia">>, <<"Netherlands", "Europe & Central Asia">>,
     <<"Poland", "Europe & Central Asia">>,
     <<"China", "East Asia & Pacific">>, <<"Japan", "East Asia & Pacific">>,
     <<"South Korea", "East Asia & Pacific">>, <<"Philippines", "East Asia & Pacific">>,
     <<"Indonesia", "East Asia & Pacific">>, <<"Thailand", "East Asia & Pacific">>,
     <<"Vietnam", "East Asia & Pacific">>, <<"Malaysia", "East Asia & Pacific">>,
     <<"New Zealand", "East Asia & Pacific">>,
     <<"India", "South Asia">>, <<"Pakistan", "South Asia">>, <<"Bangladesh", "South Asia">>,
     <<"Sri Lanka", "South Asia">>, <<"Nepal", "South Asia">>, <<"Bhutan", "South Asia">>,
     <<"Saudi Arabia", "Middle East & North Africa">>,
     <<"United Arab Emirates", "Middle East & North Africa">>,
     <<"Qatar", "Middle East & North Africa">>, <<"Kuwait", "Middle East & North Africa">>,
     <<"Iran", "Middle East & North Africa">>,
     <<"Australia", "Oceania">>, <<"New Zealand", "Oceania">>, <<"Fiji", "Oceania">>,
     <<"Papua New Guinea", "Oceania">> >>

(* Python dict display: entries are stored left to right, so the value of  *)
(* a key written more than once is the one of its last entry.              *)
DictFirstWins(entries) ==
  [k \in {entries[i][1] : i \in 1..Len(entries)} |->
     LET first == CHOOSE i \in 1..Len(entries) :
                    /\ entries[i][1] = k
                    /\ \A j \in 1..Len(entries) : entries[j][1] = k => i <= j
     IN entries[first][2]]

DictDisplay(entries) ==
  [k \in {entries[i][1] : i \in 1..Len(entries)} |->
     LET last == CHOOSE i \in 1..Len(entries) :
                   /\ entries[i][1] = k
                   /\ \A j \in 1..Len(entries) : entries[j][1] = k => j <= i
     IN entries[last][2]]

country_to_continent == DictDisplay(CountryLiteral)


(* ------------------------- pandas primitives -------------------------- *)
(* Elementwise "==" of a column with a scalar: NaN/None equal nothing.     *)
PdEq(a, b) == a # NoNum /\ b # NoNum /\ a = b

(* Series.isin(values) after the values went through dropna(): a missing   *)
(* cell is in no selection.                                                *)
PdIsin(a, values) == a # NaN /\ a \in values

NoTable == [columns |-> {}, rows |-> <<>>]

(* line 13: read_excel returns the sheet's headers and rows.               *)
read_excel(sheet) == sheet

(* lines 16-26: DataFrame.rename(columns=...) renames the headers that are *)
(* keys of the mapping and leaves every other header as it is.             *)
Canonical(h) == IF h \in DOMAIN RenameMap THEN RenameMap[h] ELSE h

SourceOf(c, headers) == CHOOSE h \in headers : Canonical(h) = c

rename(d) ==
  LET cols == {Canonical(h) : h \in d.columns}
  IN [columns |-> cols,
      rows |-> [i \in 1..Len(d.rows) |->
                  [c \in cols |-> d.rows[i][SourceOf(c, d.columns)]]]]

(* line 30: pd.to_numeric(cell, errors='coerce') on one cell.  The text is *)
(* an optional "-" followed by one or more decimal digits; anything else   *)
(* becomes NaN.                                                            *)
Digits == {"0", "1", "2", "3", "4", "5", "6", "7", "8", "9"}

DigitVal(ch) ==
  CASE ch = "0" -> 0 [] ch = "1" -> 1 [] ch = "2" -> 2 [] ch = "3" -> 3
    [] ch = "4" -> 4 [] ch = "5" -> 5 [] ch = "6" -> 6 [] ch = "7" -> 7
    [] ch = "8" -> 8 [] ch = "9" -> 9

RECURSIVE DecimalVal(_)
DecimalVal(s) ==
  IF s = <<>> THEN 0
  ELSE 10 * DecimalVal(SubSeq(s, 1, Len(s) - 1)) + DigitVal(s[Len(s)])

AllDigits(s) == Len(s) > 0 /\ \A i \in 1..Len(s) : s[i] \in Digits

to_numeric(cell) ==
  IF AllDigits(cell) THEN Num(DecimalVal(cell))
  ELSE IF Len(cell) > 1 /\ cell[1] = "-" /\ AllDigits(Tail(cell))
       THEN Num(0 - DecimalVal(Tail(cell)))
       ELSE NoNum

(* line 30: df[num_cols] = df[num_cols].apply(pd.to_numeric, ...): every   *)
(* indicator column is coerced cell by cell, the other columns are kept.   *)
CoerceColumnWise(d) ==
  LET bad(c) == \E i \in 1..Len(d.rows) : to_numeric(d.rows[i][c]) = NoNum
  IN [d EXCEPT !.rows =
        [i \in 1..Len(d.rows) |->
           [c \in d.columns |->
              IF c \in num_cols
              THEN (IF bad(c) THEN NoNum ELSE to_numeric(d.rows[i][c]))
              ELSE d.rows[i][c]]]]

Coerce(d) ==
  [d EXCEPT !.rows =
     [i \in 1..Len(d.rows) |->
        [c \in d.columns |->
           IF c \in num_cols THEN to_numeric(d.rows[i][c]) ELSE d.rows[i][c]]]]

(* line 37: Series.map(dict): a value that is no key of the dict, NaN      *)
(* included, maps to NaN.                                                  *)
SeriesReplace(v, dict) == IF v \in DOMAIN dict THEN dict[v] ELSE v

SeriesMap(v, dict) == IF v \in DOMAIN dict THEN dict[v] ELSE NaN

WithColumn(row, name, value) ==
  [c \in (DOMAIN row) \cup {name} |-> IF c = name THEN value ELSE row[c]]

MapRegion(d) ==
  [columns |-> d.columns \cup {"Continent"},
   rows |-> [i \in 1..Len(d.rows) |->
               WithColumn(d.rows[i], "Continent",
                          SeriesMap(d.rows[i]["Region"], continent_mapping))]]

(* line 78: country_to_continent.get(row['Country'], row['Continent']).    *)
DictGetOnlyIfMissing(dict, key, default) ==
  IF default = NaN /\ key \in DOMAIN dict THEN dict[key] ELSE default

DictGetNoDefault(dict, key, default) == IF key \in DOMAIN dict THEN dict[key] ELSE NaN

DictGet(dict, key, default) == IF key \in DOMAIN dict THEN dict[key] ELSE default

ApplyCountry(d) ==
  [d EXCEPT !.rows =
     [i \in 1..Len(d.rows) |->
        [d.rows[i] EXCEPT !["Continent"] =
           DictGet(country_to_continent, d.rows[i]["Country"], d.rows[i]["Continent"])]]]

(* line 81: df['Continent'].fillna("Unknown", inplace=True).               *)
FillnaNoop(v, fill) == v

Fillna(v, fill) == IF v = NaN THEN fill ELSE v

FillContinent(d) ==
  [d EXCEPT !.rows =
     [i \in 1..Len(d.rows) |->
        [d.rows[i] EXCEPT !["Continent"] = Fillna(d.rows[i]["Continent"], "Unknown")]]]

(* lines 13-81: the table load_data builds, when nothing raises.           *)
Normalized(sheet) ==
  FillContinent(ApplyCountry(MapRegion(Coerce(rename(read_excel(sheet))))))

(* lines 30, 37, 78: the exception load_data raises before the cache       *)
(* write, or "none".  On a sheet without rows line 78 never evaluates the  *)
(* lambda on a row; whether the assignment of its result then raises       *)
(* depends on the pandas release (emptyRaises).                            *)
LoadError(sheet, emptyRaises) ==
  LET cols == rename(read_excel(sheet)).columns
  IN IF ~(num_cols \subseteq cols) THEN "KeyError"
     ELSE IF "Region" \notin cols THEN "KeyError"
     ELSE IF sheet.rows = <<>>
          THEN (IF "Country" \notin cols \/ emptyRaises THEN "ValueError" ELSE "none")
     ELSE IF "Country" \notin cols THEN "KeyError"
     ELSE "none"


(* ---------------------------- cache writer ---------------------------- *)
TextColumns == {"Country", "Country Code", "Income Level", "Region", "Continent"}

SqlNull == <<"NULL">>

(* line 85: how to_sql stores one cell: a missing value becomes NULL, a    *)
(* string a TEXT value, a number a REAL value.                             *)
SqlCell(c, v) ==
  IF c \in TextColumns
  THEN (IF v = NaN THEN SqlNull ELSE <<"TEXT", v>>)
  ELSE (IF v = NoNum THEN SqlNull ELSE <<"REAL", v[1]>>)

SqlRows(d) ==
  [columns |-> d.columns,
   rows |-> [i \in 1..Len(d.rows) |->
               [c \in d.columns |-> SqlCell(c, d.rows[i][c])]]]

(* line 85: to_sql("employment", conn, if_exists="replace"): the existing  *)
(* table is dropped and a new one is created from the frame.               *)
to_sql_append(existing, d) ==
  [columns |-> d.columns, rows |-> existing.rows \o SqlRows(d).rows]

to_sql(existing, d) == SqlRows(d)

(* ------------------------------ filters ------------------------------- *)
NoSelection == "none"

(* line 96: the years the selectbox offers.                                *)
available_years(d) == {d.rows[i]["Year"] : i \in 1..Len(d.rows)} \ {NoNum}

(* lines 105, 112: the names the multiselect offers.                       *)
Options(d, col) == {d.rows[i][col] : i \in 1..Len(d.rows)} \ {NaN}

ModeColumn(mode) == IF mode = "Countries" THEN "Country" ELSE "Continent"

(* lines 108, 115: the boolean mask (isin(...)) & (Year == selected_year). *)
MaskIgnoringYear(row, col, names, year) == PdIsin(row[col], names)

Mask(row, col, names, year) == PdIsin(row[col], names) /\ PdEq(row["Year"], year)

RECURSIVE BooleanIndex(_, _, _, _)
(* df[mask]: the rows whose mask is true, in the order of df.              *)
BooleanIndex(rows, col, names, year) ==
  IF rows = <<>> THEN <<>>
  ELSE LET rest == BooleanIndex(Tail(rows), col, names, year)
       IN IF Mask(Head(rows), col, names, year) THEN <<Head(rows)>> \o rest ELSE rest


(* --------------------------- input sheets ----------------------------- *)
MkRow(country, region, year, e, u, l, y) ==
  [h \in ExpectedHeaders |->
     CASE h = "Country Name" -> country
       [] h = "Country Code" -> "ISO"
       [] h = "Income Level Name" -> "Low income"
       [] h = "Year of survey" -> year
       [] h = "Region Code" -> region
       [] h = "Employment to Population Ratio, aged 15-64" -> e
       [] h = "Unemployment Rate, aged 15-64" -> u
       [] h = "Labor Force Participation Rate, aged 15-64" -> l
       [] h = "Youth Unemployment Rate, aged 15-24" -> y]

Sheet(headers, rows) ==
  [columns |-> headers,
   rows |-> [i \in 1..Len(rows) |-> [h \in headers |-> rows[i][h]]]]

SeqsUpTo(S, n) == UNION {[1..k -> S] : k \in 0..n}

(* One row, every region code (mapped, unmapped, missing) with every       *)
(* country name (each key of the fallback map, an unlisted name, missing). *)
RegionCodes == (DOMAIN continent_mapping) \cup {"ZZZ", NaN}
CountryNames == (DOMAIN country_to_continent) \cup {"Atlantis", NaN}

ClassifySheets ==
  {Sheet(ExpectedHeaders, <<MkRow(c, r, Num(2020), <<"6", "1">>, <<"7">>, <<"6", "8">>, <<"1", "5">>)>>) :
     c \in CountryNames, r \in RegionCodes}

(* Up to MaxRows rows that differ in country and year.                     *)
TableRows ==
  {MkRow(c, "ZZZ", yr, <<"6", "1">>, <<"7">>, <<"6", "8">>, <<"1", "5">>) :
     c \in {"Kenya", "Mali", NaN}, yr \in {Num(2019), Num(2020), NoNum}}

TableSheets == {Sheet(ExpectedHeaders, rows) : rows \in SeqsUpTo(TableRows, MaxRows)}

(* Up to MaxRows rows in which no indicator cell, one of them, or each of  *)
(* them is not numeric.                                                    *)
CoerceRows ==
  {r \in {MkRow("Kenya", "AFR", Num(2020), e, u, l, y) :
            e \in {<<"6", "1">>, <<"x">>}, u \in {<<"7">>, <<"n", "a">>},
            l \in {<<"6", "8">>, <<"-">>}, y \in {<<"1", "5">>, <<"1", "x">>}} :
     Cardinality({h \in IndicatorHeaders : to_numeric(r[h]) = NoNum}) \in {0, 1, 4}}

CoerceSheets == {Sheet(ExpectedHeaders, rows) : rows \in SeqsUpTo(CoerceRows, MaxRows) \ {<<>>}}

(* One row, one indicator cell drawn from a wider set of texts.            *)
CellTexts ==
  {<<>>, <<"0">>, <<"4", "2">>, <<"-", "3">>, <<"-">>, <<"-", "-">>, <<"3", "-">>,
   <<"x">>, <<"4", "x">>, <<"x", "4">>, <<"0", "7">>}

CellSheets ==
  {Sheet(ExpectedHeaders, <<MkRow("Kenya", "AFR", Num(2020), e, u, <<"6", "8">>, <<"1", "5">>)>>) :
     e \in CellTexts, u \in CellTexts}

(* Sheets that lack one of the expected headers.                           *)
HeaderSheets ==
  {Sheet(ExpectedHeaders \ {h}, rows) :
     h \in ExpectedHeaders,
     rows \in SeqsUpTo({MkRow("Kenya", "AFR", Num(2020), <<"6", "1">>, <<"7">>, <<"6", "8">>, <<"1", "5">>),
                        MkRow("Atlantis", NaN, NoNum, <<"x">>, <<>>, <<"6", "8">>, <<"1", "5">>)}, 1)}

Sheets == ClassifySheets \cup TableSheets \cup CoerceSheets \cup CellSheets \cup HeaderSheets

(* The "employment" table an earlier build may have left in the store.     *)
StaleSheet ==
  Sheet(ExpectedHeaders,
        [i \in 1..(MaxRows + 1) |->
           MkRow("Fiji", "OCE", Num(2001), <<"5">>, <<"5">>, <<"5">>, <<"5">>)])

PriorStores == {NoTable, SqlRows(Normalized(StaleSheet))}

(* ------------------------------ actions ------------------------------- *)
Init ==
  /\ file \in Sheets
  /\ store \in PriorStores
  /\ prior = NoTable
  /\ df = NoTable
  /\ pc = "start"
  /\ err = "none"
  /\ display_type = NoSelection
  /\ selected_year = NoNum
  /\ selected = {}
  /\ filtered_df = NoTable

NoFilter ==
  /\ display_type' = NoSelection
  /\ selected_year' = NoNum
  /\ selected' = {}
  /\ filtered_df' = NoTable

(* lines 11-88 and 90: load_data runs to its return; df is bound.          *)
LoadDataReturns ==
  /\ pc = "start"
  /\ \E emptyRaises \in BOOLEAN : LoadError(file, emptyRaises) = "none"
  /\ df' = Normalized(file)
  /\ store' = to_sql(store, df')
  /\ prior' = store
  /\ pc' = "loaded"
  /\ err' = "none"
  /\ NoFilter
  /\ UNCHANGED file

(* lines 30, 37, 78: a column the code indexes is not there (or the sheet  *)
(* has no rows); load_data raises before it opens the store.               *)
LoadDataRaises ==
  /\ pc = "start"
  /\ \E emptyRaises \in BOOLEAN :
       /\ LoadError(file, emptyRaises) # "none"
       /\ err' = LoadError(file, emptyRaises)
  /\ pc' = "load_error"
  /\ df' = NoTable
  /\ NoFilter
  /\ UNCHANGED <<file, store, prior>>

(* lines 84-86: sqlite3.connect or to_sql raises; nothing catches it, so   *)
(* load_data does not return.  The store is left as it was (the open       *)
(* failed) or with the new, empty table (the old one dropped, the insert   *)
(* failed).                                                                *)
LoadDataCacheFails ==
  /\ pc = "start"
  /\ \E emptyRaises \in BOOLEAN : LoadError(file, emptyRaises) = "none"
  /\ \E dropped \in BOOLEAN :
       store' = IF dropped
                THEN [columns |-> Normalized(file).columns, rows |-> <<>>]
                ELSE store
  /\ pc' = "load_error"
  /\ err' = "OperationalError"
  /\ df' = NoTable
  /\ NoFilter
  /\ UNCHANGED <<file, prior>>

(* lines 96-140: one run of the script body on the loaded table: the       *)
(* widgets return a year, a mode and a selection, filtered_df is computed  *)
(* and rendered.                                                           *)
Filter ==
  /\ pc \in {"loaded", "shown"}
  /\ {"Year", "Country Code"} \subseteq df.columns
  /\ \E mode \in {"Countries", "Continents"} :
       \E year \in (IF available_years(df) = {} THEN {NoNum} ELSE available_years(df)) :
         \E names \in SUBSET Options(df, ModeColumn(mode)) :
           /\ display_type' = mode
           /\ selected_year' = year
           /\ selected' = names
           /\ filtered_df' = [columns |-> df.columns,
                              rows |-> BooleanIndex(df.rows, ModeColumn(mode), names, year)]
  /\ pc' = "shown"
  /\ UNCHANGED <<file, store, prior, df, err>>

(* lines 96, 136: the script indexes a column the table does not have.     *)
ScriptRaises ==
  /\ pc = "loaded"
  /\ ~({"Year", "Country Code"} \subseteq df.columns)
  /\ pc' = "script_error"
  /\ err' = IF "Year" \in df.columns THEN "ValueError" ELSE "KeyError"
  /\ UNCHANGED <<file, store, prior, df, display_type, selected_year, selected, filtered_df>>

(* A new process (or a cleared st.cache_data cache): the script starts     *)
(* over; the store keeps what the last build left in it.                   *)
Restart ==
  /\ pc \in {"loaded", "shown", "load_error", "script_error"}
  /\ pc' = "start"
  /\ df' = NoTable
  /\ err' = "none"
  /\ NoFilter
  /\ UNCHANGED <<file, store, prior>>

Next ==
  \/ LoadDataReturns
  \/ LoadDataRaises
  \/ LoadDataCacheFails
  \/ Filter
  \/ ScriptRaises
  \/ Restart

Spec == Init /\ [][Next]_vars


(* ------------------------------ claims -------------------------------- *)
(* load_data has returned and df is bound to the table it built.           *)
Returned == pc \in {"loaded", "shown", "script_error"}

RowIds == 1..Len(df.rows)

InFallback(i) == df.rows[i]["Country"] \in DOMAIN country_to_continent

InRegionMap(i) == df.rows[i]["Region"] \in DOMAIN continent_mapping

C2_Totality ==
  Returned =>
    /\ "Continent" \in df.columns
    /\ \A i \in RowIds : df.rows[i]["Continent"] \notin {NaN, ""}
    /\ \A i \in 1..Len(store.rows) :
         /\ store.rows[i]["Continent"] # SqlNull
         /\ store.rows[i]["Continent"] # <<"TEXT", "">>
    /\ \A i \in 1..Len(filtered_df.rows) : filtered_df.rows[i]["Continent"] \notin {NaN, ""}

C2_Witness ==
  /\ pc = "shown"
  /\ \E i \in 1..Len(filtered_df.rows) :
       /\ filtered_df.rows[i]["Region"] = NaN
       /\ filtered_df.rows[i]["Country"] = NaN
       /\ filtered_df.rows[i]["Continent"] = "Unknown"
       /\ store.rows[i]["Continent"] = <<"TEXT", "Unknown">>

(* C3: region-code tier -- a row whose country name is no key of the       *)
(* fallback map (a missing name included) and whose region code is a key   *)
(* of the region map gets the region map's continent.                      *)
C3_RegionTier ==
  Returned =>
    \A i \in RowIds :
      (~InFallback(i) /\ InRegionMap(i)) =>
        df.rows[i]["Continent"] = continent_mapping[df.rows[i]["Region"]]

C3_Witness ==
  /\ pc = "loaded"
  /\ \E i \in RowIds :
       /\ df.rows[i]["Country"] = NaN
       /\ df.rows[i]["Region"] = "SAS"
       /\ df.rows[i]["Continent"] = "South Asia"

(* C4: sentinel -- a row that matches neither map gets exactly "Unknown",  *)
(* and "Unknown" is given to no row that matches either map.               *)
C4_Sentinel ==
  Returned =>
    \A i \in RowIds :
      (df.rows[i]["Continent"] = "Unknown") <=> (~InFallback(i) /\ ~InRegionMap(i))

C4_Witness ==
  /\ pc = "loaded"
  /\ \E i \in RowIds :
       /\ df.rows[i]["Country"] = "Atlantis"
       /\ df.rows[i]["Region"] = "ZZZ"
       /\ df.rows[i]["Continent"] = "Unknown"

(* C5: query correctness -- filtered_df holds exactly the rows of df whose *)
(* mode-relevant field is selected and whose Year is the selected year, in *)
(* their original relative order; it is empty when no row matches.  (A row *)
(* without a year has no year equal to the selected one.)                  *)
Matching ==
  {i \in RowIds :
     /\ df.rows[i][ModeColumn(display_type)] \in selected
     /\ df.rows[i]["Year"] # NoNum
     /\ df.rows[i]["Year"] = selected_year}

C5_QueryCorrect ==
  pc = "shown" =>
    /\ Len(filtered_df.rows) = Cardinality(Matching)
    /\ \A i \in Matching :
         filtered_df.rows[Cardinality({j \in Matching : j <= i})] = df.rows[i]
    /\ filtered_df.columns = df.columns

C5_Witness ==
  /\ pc = "shown"
  /\ display_type = "Countries"
  /\ selected = {"Kenya"}
  /\ selected_year = Num(2020)
  /\ Len(filtered_df.rows) = 1
  /\ Len(df.rows) = 2
  /\ \E i \in RowIds : df.rows[i]["Country"] = "Kenya" /\ df.rows[i]["Year"] = Num(2019)

(* What a read of a stored cell gives back.                                *)
SqlValue(c, cell) ==
  IF cell = SqlNull THEN (IF c \in TextColumns THEN NaN ELSE NoNum)
  ELSE IF c \in TextColumns THEN cell[2] ELSE Num(cell[2])

(* C6: replace, not merge -- after every completed load_data the stored    *)
(* table holds exactly the rows just built, in order, Continent included,  *)
(* and no row of an earlier build.                                         *)
C6_CacheReplaced ==
  Returned =>
    /\ store.columns = df.columns
    /\ Len(store.rows) = Len(df.rows)
    /\ \A i \in RowIds : \A c \in df.columns :
         SqlValue(c, store.rows[i][c]) = df.rows[i][c]

C6_Witness ==
  /\ pc = "loaded"
  /\ Len(prior.rows) = MaxRows + 1
  /\ Len(store.rows) = 1
  /\ store.rows[1]["Continent"] = <<"TEXT", "Africa">>

(* C7: a failed cache write is not fatal -- load_data still returns the    *)
(* normalized table and queries are served from it.                        *)
C7_CacheFailureNonFatal ==
  err = "OperationalError" => (Returned /\ df = Normalized(file))

(* A cell of an indicator column that cannot be parsed as a number.        *)
Unparseable(cell) ==
  /\ cell # <<>>
  /\ \/ \E k \in 1..Len(cell) : cell[k] \notin Digits \cup {"-"}
     \/ \E k \in 2..Len(cell) : cell[k] = "-"
     \/ cell = <<"-">>

SheetCells == {<<i, h>> : i \in 1..Len(file.rows), h \in file.columns}

(* C8: numeric coercion -- an unparseable indicator cell becomes absent in *)
(* its row and column only: the load does not abort on it, the row is      *)
(* kept, and every other cell is what it would be were the cell numeric.   *)
C8_Coercion ==
  /\ (file.columns = ExpectedHeaders /\ file.rows # <<>>) => err \notin {"KeyError", "ValueError"}
  /\ Returned =>
       /\ Len(df.rows) = Len(file.rows)
       /\ \A x \in SheetCells :
            (x[2] \in IndicatorHeaders /\ Unparseable(file.rows[x[1]][x[2]])) =>
              /\ df.rows[x[1]][RenameMap[x[2]]] = NoNum
              /\ LET repaired == Normalized([file EXCEPT !.rows[x[1]][x[2]] = <<"9">>])
                 IN \A y \in SheetCells \ {x} :
                      repaired.rows[y[1]][Canonical(y[2])] = df.rows[y[1]][Canonical(y[2])]

C8_Witness ==
  /\ pc = "loaded"
  /\ Len(df.rows) = 2
  /\ file.rows[1]["Unemployment Rate, aged 15-64"] = <<"n", "a">>
  /\ file.rows[2]["Unemployment Rate, aged 15-64"] = <<"7">>
  /\ df.rows[1]["Unemployment Rate"] = NoNum
  /\ df.rows[2]["Unemployment Rate"] = Num(7)
  /\ df.rows[1]["Employment Rate"] = Num(61)

(* C9: missing headers are surfaced -- when the sheet lacks one of the     *)
(* expected headers, load_data ends in an error and returns no table.      *)
C9_MissingHeaderSurfaced ==
  (ExpectedHeaders \ file.columns # {}) => ~Returned

====
